---- MODULE Spec2Model ----
(***************************************************************************)
(* Lyric Trigger plugin (src/main.py): NeteaseLyricsAPI and Main.          *)
(*                                                                         *)
(* A text is a sequence of one-character strings.  A similarity score and  *)
(* a threshold are exact fractions <<numerator, denominator>>; the code    *)
(* compares two correctly rounded doubles, which orders them as the        *)
(* fractions are ordered.                                                  *)
(***************************************************************************)
EXTENDS Integers, Sequences, FiniteSets, TLC

VARIABLES
    similarity_threshold, \* self.config["similarity_threshold"]
    max_search_results,   \* self.config["max_search_results"]
    trigger_prompt,       \* self.config["trigger_prompt"]
    http_session,         \* self.http_session: "None", "open" or "closed"
    call_session,         \* the handler's awaited call: the state its session had when
                          \* the call was made, "open" or "closed"; "none" without a call
    task_session,         \* the same per concurrent resolution
    awaiting,             \* the await the handler's call is at: "none", "response", "body"
    task_awaiting,        \* the same per concurrent resolution
    api,                  \* self.api: "None" or "set"
    pc,                   \* position of the command handler: "idle", "search", "fetch"
    cmd_lyric_text,       \* local lyric_text of cmd_lyric_match: the joined arguments
    user_text,            \* find_matching_lyric's argument
    songs,                \* local songs of find_matching_lyric
    idx,                  \* rank (1-based) of the candidate the loop is at
    lines,                \* local lines of find_matching_lyric
    outcome,              \* how find_matching_lyric ended: "none", "result", "nomatch", "raised"
    exc,                  \* the exception it raised, "none" otherwise
    result,               \* the tuple it returned, <<>> otherwise
    sent,                 \* the outbound message of the handler
    outbox,               \* history: the messages the handler's invocation has sent
    search_calls,         \* history: calls of search_songs by the invocation
    search_status,        \* history: HTTP status of the search response (0: no response, -1: none yet)
    fetchLog,             \* history: ranks of the candidates whose lyric was requested
    lastFetch,            \* history: what get_lyrics last returned: "none" yet, "failed" (None),
                          \* "ok" (a text lyric, parsed into lines), "nontext"
    resolved_text,        \* history: user_text of the latest resolution that returned a result
    resolved_lines,       \* history: parsed lines of the song of that resolution
    simA, simB, simScore, \* inputs and output of a call of calculate_similarity
    parseIn, parseOut,    \* input and output of a call of parse_lyrics
    task_pc,              \* per concurrent resolution: "idle", "search", "fetch", "done"
    frames,               \* per frame: the locals and the return of find_matching_lyric
    heard                 \* history, per resolution: what its own requests returned

vars == <<similarity_threshold, max_search_results, trigger_prompt, http_session, api,
          call_session, task_session, awaiting, task_awaiting,
          pc, cmd_lyric_text, user_text, songs, idx, lines, outcome, exc, result, sent,
          outbox, search_calls, search_status, fetchLog, lastFetch,
          resolved_text, resolved_lines, simA, simB, simScore, parseIn, parseOut,
          task_pc, frames, heard>>

config == <<similarity_threshold, max_search_results, trigger_prompt>>
pluginState == <<config, http_session, api>>
historyVars == <<resolved_text, resolved_lines>>
simVars == <<simA, simB, simScore>>
parseVars == <<parseIn, parseOut>>
concVars == <<task_pc, frames, heard>>
\* The calls being awaited, their sessions and the await each is at: of the
\* handler, of the concurrent resolutions, and all.
handlerCall == <<call_session, awaiting>>
taskCalls == <<task_session, task_awaiting>>
sessionVars == <<handlerCall, taskCalls>>
\* The variables of the calls made outside a command.
callVars == <<simVars, parseVars, concVars>>
\* The locals and the history of one invocation of cmd_lyric_match.
invocationVars == <<pc, cmd_lyric_text, user_text, songs, idx, lines, outcome, exc, result,
                    sent, outbox, search_calls, search_status, fetchLog, lastFetch>>

(***************************************************************************)
(* Bounds and input sets                                                   *)
(***************************************************************************)
MaxArgs == 2
MaxSongs == 2
MaxLines == 3
MaxSimLen == 2
HistMaxArgs == 1
HistMaxSongs == 1
ConcMaxSongs == 2

\* Words the framework may hand to the handler as *args.
ArgWords == { <<"A">>, <<" ">> }

\* Values of config["similarity_threshold"]: the default 0.6, and the ends
\* 0.0 and 1.0 of its range.
Thresholds == { <<0, 1>>, <<3, 5>>, <<1, 1>> }

\* Two time tags, [mm:ss.xx] and [mm:ss:xx].
TagDot == <<"[", "0", "0", ":", "0", "1", ".", "0", "0", "]">>
TagColon == <<"[", "0", "1", ":", "0", "5", ":", "1", "0", "]">>

\* Raw lines of a provider's LRC text that keep a lyric line, and one that
\* is empty once its tag is removed.
RawLines == { TagDot \o <<"A">>,
              TagDot \o TagColon \o <<"a", "b", " ">> }
TagOnlyLine == TagColon

SeqsUpTo(S, n) == UNION { [1..k -> S] : k \in 0..n }

(***************************************************************************)
(* str methods                                                             *)
(***************************************************************************)
Whitespace == { " ", "\n", "\t", "\r" }

RECURSIVE lstrip(_)
lstrip(s) == IF s = <<>> THEN s
             ELSE IF Head(s) \in Whitespace THEN lstrip(Tail(s)) ELSE s

RECURSIVE rstrip(_)
rstrip(s) == IF s = <<>> THEN s
             ELSE IF s[Len(s)] \in Whitespace THEN rstrip(SubSeq(s, 1, Len(s) - 1)) ELSE s

\* str.lstrip in the place of str.strip.
strip_leftOnly(s) == lstrip(s)

strip(s) == rstrip(lstrip(s))

lowerChar(c) == CASE c = "A" -> "a"
                  [] c = "B" -> "b"
                  [] OTHER -> c

lower(s) == [i \in 1..Len(s) |-> lowerChar(s[i])]

removeSpaces(s) == SelectSeq(s, LAMBDA c : c # " ")

RECURSIVE join(_, _)
join(sep, parts) == IF parts = <<>> THEN <<>>
                    ELSE IF Len(parts) = 1 THEN parts[1]
                    ELSE parts[1] \o sep \o join(sep, Tail(parts))

\* str.split('\n') from position p on: the pieces between the newlines,
\* always at least one piece.
RECURSIVE splitFrom(_, _)
splitFrom(s, p) ==
    LET newlines == { q \in p..Len(s) : s[q] = "\n" }
    IN  IF newlines = {} THEN <<SubSeq(s, p, Len(s))>>
        ELSE LET q == CHOOSE x \in newlines : \A y \in newlines : x <= y
             IN  <<SubSeq(s, p, q - 1)>> \o splitFrom(s, q + 1)

splitLines(s) == splitFrom(s, 1)

(***************************************************************************)
(* re.sub(r'\[\d{2}:\d{2}(:\d{2})?\.?\d*\]', '', line)                     *)
(***************************************************************************)
Digits == { "0", "1", "2", "3", "4", "5", "6", "7", "8", "9" }

\* The character at position p, "" past the end.
charAt(s, p) == IF p >= 1 /\ p <= Len(s) THEN s[p] ELSE ""

isDigit(s, p) == charAt(s, p) \in Digits

RECURSIVE skipDigits(_, _)
skipDigits(s, p) == IF isDigit(s, p) THEN skipDigits(s, p + 1) ELSE p

\* The position after the match of the pattern that starts at p, 0 when none
\* starts there.  Each greedy choice is forced: the character that lets an
\* optional part match cannot start what follows it.
tagEnd(s, p) ==
    IF /\ charAt(s, p) = "["
       /\ isDigit(s, p + 1) /\ isDigit(s, p + 2)
       /\ charAt(s, p + 3) = ":"
       /\ isDigit(s, p + 4) /\ isDigit(s, p + 5)
    THEN LET q0 == p + 6
             q1 == IF charAt(s, q0) = ":" /\ isDigit(s, q0 + 1) /\ isDigit(s, q0 + 2)
                   THEN q0 + 3 ELSE q0
             q2 == IF charAt(s, q1) = "." THEN q1 + 1 ELSE q1
             q3 == skipDigits(s, q2)
         IN  IF charAt(s, q3) = "]" THEN q3 + 1 ELSE 0
    ELSE 0

\* re.sub from position p on: the leftmost match is removed and the scan
\* resumes after it.
RECURSIVE removeTags(_, _)
removeTags(s, p) ==
    LET starts == { q \in p..Len(s) : tagEnd(s, q) > 0 }
    IN  IF starts = {} THEN SubSeq(s, p, Len(s))
        ELSE LET q == CHOOSE x \in starts : \A y \in starts : x <= y
             IN  SubSeq(s, p, q - 1) \o removeTags(s, tagEnd(s, q))

(***************************************************************************)
(* NeteaseLyricsAPI.parse_lyrics                                           *)
(***************************************************************************)
cleanLine(line) == strip(removeTags(line, 1))

RECURSIVE keepCleaned(_)
keepCleaned(rawLines) ==
    IF rawLines = <<>> THEN <<>>
    ELSE LET cleaned == cleanLine(Head(rawLines))
         IN  (IF cleaned # <<>> THEN <<cleaned>> ELSE <<>>) \o keepCleaned(Tail(rawLines))

parse_lyrics(lyric_text) ==
    IF lyric_text = <<>> THEN <<>> ELSE keepCleaned(splitLines(lyric_text))

(***************************************************************************)
(* difflib.SequenceMatcher(None, a, b).ratio(), for texts shorter than the *)
(* 200 characters at which the automatic junk heuristic starts.            *)
(* Windows are half open, alo <= i < ahi, counted from 0 as in difflib;    *)
(* element i is a[i + 1].                                                  *)
(***************************************************************************)
\* Length of the common run of a and b that starts at i, j inside the window.
RECURSIVE runLen(_, _, _, _, _, _)
runLen(a, b, i, j, ahi, bhi) ==
    IF i < ahi /\ j < bhi /\ a[i + 1] = b[j + 1]
    THEN 1 + runLen(a, b, i + 1, j + 1, ahi, bhi)
    ELSE 0

setMax(S) == CHOOSE m \in S : \A n \in S : n <= m
setMin(S) == CHOOSE m \in S : \A n \in S : m <= n

\* find_longest_match: the longest block, of those the one starting earliest
\* in a, of those the one starting earliest in b.
find_longest_match(a, b, alo, ahi, blo, bhi) ==
    LET I == alo..(ahi - 1)
        J == blo..(bhi - 1)
        k == IF I = {} \/ J = {} THEN 0
             ELSE setMax({ runLen(a, b, i, j, ahi, bhi) : i \in I, j \in J })
    IN  IF k = 0 THEN <<alo, blo, 0>>
        ELSE LET i == setMin({ x \in I : \E y \in J : runLen(a, b, x, y, ahi, bhi) = k })
                 j == setMin({ y \in J : runLen(a, b, i, y, ahi, bhi) = k })
             IN  <<i, j, k>>

\* get_matching_blocks: total size of the blocks found by splitting around
\* the longest match and recursing to its left and to its right.
RECURSIVE matchCount(_, _, _, _, _, _)
matchCount(a, b, alo, ahi, blo, bhi) ==
    LET m == find_longest_match(a, b, alo, ahi, blo, bhi)
        i == m[1]
        j == m[2]
        k == m[3]
    IN  IF k = 0 THEN 0
        ELSE k + (IF alo < i /\ blo < j THEN matchCount(a, b, alo, i, blo, j) ELSE 0)
               + (IF i + k < ahi /\ j + k < bhi
                  THEN matchCount(a, b, i + k, ahi, j + k, bhi) ELSE 0)

\* ratio() without the factor 2.
ratio_notDoubled(a, b) ==
    IF Len(a) + Len(b) = 0 THEN <<1, 1>>
    ELSE <<matchCount(a, b, 0, Len(a), 0, Len(b)), Len(a) + Len(b)>>

\* ratio() == 2.0 * matches / (len(a) + len(b)), 1.0 when both are empty.
ratio(a, b) ==
    IF Len(a) + Len(b) = 0 THEN <<1, 1>>
    ELSE <<2 * matchCount(a, b, 0, Len(a), 0, Len(b)), Len(a) + Len(b)>>

(***************************************************************************)
(* Main.calculate_similarity                                               *)
(***************************************************************************)
calculate_similarity(str1, str2) ==
    IF str1 = <<>> \/ str2 = <<>> THEN <<0, 1>>
    ELSE LET str1_clean == removeSpaces(lower(str1))
             str2_clean == removeSpaces(lower(str2))
         IN  IF str1_clean = <<>> \/ str2_clean = <<>> THEN <<0, 1>>
             ELSE ratio(str1_clean, str2_clean)

\* Line 158 with > in place of >=.
greaterThan(similarity, threshold) ==
    similarity[1] * threshold[2] > threshold[1] * similarity[2]

\* similarity >= self.config["similarity_threshold"]
atLeast(similarity, threshold) ==
    similarity[1] * threshold[2] >= threshold[1] * similarity[2]

(***************************************************************************)
(* Provider responses                                                      *)
(***************************************************************************)
\* song.get("name", "未知歌曲"): the default name, written in ASCII here.
UnknownSong == "UnknownSong"

\* Entries of result.songs: objects with or without "name", with an id that
\* is truthy or falsy (0 or missing), and an entry that is no object.
SongA == [obj |-> TRUE, id |-> 1, has_name |-> TRUE, name |-> "SongA"]
SongB == [obj |-> TRUE, id |-> 2, has_name |-> FALSE, name |-> ""]
SongNoId == [obj |-> TRUE, id |-> 0, has_name |-> TRUE, name |-> "SongC"]
NotObject == [obj |-> FALSE, id |-> 0, has_name |-> FALSE, name |-> ""]

SongEntries == { SongA, SongB, SongNoId, NotObject }

\* status 0: no response (network error, timeout).  body: "nojson" (r.json()
\* raises), "nofield" (no result.songs), "list" (result.songs is songs).
SearchResponsesUpTo(n) ==
    { [status |-> 0, body |-> "none", songs |-> <<>>] }
    \cup { [status |-> st, body |-> b, songs |-> <<>>] :
              st \in { 200, 500 }, b \in { "nojson", "nofield" } }
    \cup { [status |-> st, body |-> "list", songs |-> l] :
              st \in { 200, 500 }, l \in SeqsUpTo(SongEntries, n) }

SearchResponses == SearchResponsesUpTo(MaxSongs)

\* Raw LRC texts: up to MaxLines lyric lines, and two lines of which the
\* parser keeps one.
LyricTexts ==
    { join(<<"\n">>, ls) : ls \in SeqsUpTo(RawLines, MaxLines) }
    \cup { join(<<"\n">>, <<TagOnlyLine, l>>) : l \in RawLines }

ArgLists == SeqsUpTo(ArgWords, MaxArgs)

\* parse_lyrics on every text a response can carry, computed once.
parsedText == [t \in LyricTexts |-> parse_lyrics(t)]

\* body: "nolrc" (lrc missing, falsy or no object), "text" (lrc.lyric is the
\* text lyric), "nontext" (lrc.lyric is truthy and no string).
LyricResponses ==
    { [status |-> 0, body |-> "none", lyric |-> <<>>],
      [status |-> 500, body |-> "nojson", lyric |-> <<>>],
      [status |-> 200, body |-> "nojson", lyric |-> <<>>],
      [status |-> 200, body |-> "nolrc", lyric |-> <<>>],
      [status |-> 200, body |-> "nontext", lyric |-> <<>>] }
    \cup { [status |-> 200, body |-> "text", lyric |-> t] : t \in LyricTexts }

(***************************************************************************)
(* NeteaseLyricsAPI.search_songs, NeteaseLyricsAPI.get_lyrics              *)
(***************************************************************************)
\* search_songs without the status check of lines 33-35.
search_songs_anyStatus(resp, session) ==
    IF session # "open" \/ resp.status = 0 THEN <<>>
    ELSE IF resp.body = "list" THEN resp.songs
    ELSE <<>>

\* session.get raises on a session that is closed when the call is made, and
\* on a request that fails (status 0); the except clause returns [].
search_songs(resp, session) ==
    IF session # "open" \/ resp.status = 0 THEN <<>>
    ELSE IF resp.status # 200 THEN <<>>
    ELSE IF resp.body = "list" THEN resp.songs
    ELSE <<>>

NoLyrics == [present |-> FALSE, is_text |-> FALSE, lyric |-> <<>>]

\* None, or data with a truthy data["lrc"]["lyric"].
get_lyrics(resp, session) ==
    IF session # "open" \/ resp.status = 0 THEN NoLyrics
    ELSE IF resp.status # 200 THEN NoLyrics
    ELSE IF resp.body = "nontext" THEN [present |-> TRUE, is_text |-> FALSE, lyric |-> <<>>]
    ELSE IF resp.body = "text" /\ resp.lyric # <<>>
         THEN [present |-> TRUE, is_text |-> TRUE, lyric |-> resp.lyric]
    ELSE NoLyrics

(***************************************************************************)
(* Main.find_matching_lyric                                                *)
(***************************************************************************)
\* The loop of line 155 keeping the last line that matches, not the first.
RECURSIVE lastMatch(_, _, _, _, _)
lastMatch(text, ls, threshold, i, last) ==
    IF i > last THEN 0
    ELSE IF atLeast(calculate_similarity(text, ls[last]), threshold) THEN last
    ELSE lastMatch(text, ls, threshold, i, last - 1)

\* calculate_similarity on every text of a command and every line a parsed
\* lyric can hold, computed once.
similarityTable ==
    [a \in { strip(join(<<" ">>, args)) : args \in ArgLists },
     b \in UNION { { parsedText[t][k] : k \in 1..Len(parsedText[t]) } : t \in LyricTexts }
        |-> calculate_similarity(a, b)]

\* self.calculate_similarity(user_text, line), line 156.
similarity(a, b) ==
    IF <<a, b>> \in DOMAIN similarityTable THEN similarityTable[a, b]
    ELSE calculate_similarity(a, b)

\* for i, line in enumerate(lines[:-1]): the first position from i to last
\* whose line scores at least the threshold, 0 when none does.
RECURSIVE firstMatch(_, _, _, _, _)
firstMatch(text, ls, threshold, i, last) ==
    IF i > last THEN 0
    ELSE IF atLeast(similarity(text, ls[i]), threshold) THEN i
    ELSE firstMatch(text, ls, threshold, i + 1, last)

\* Lines 151-158 with enumerate(lines) in place of enumerate(lines[:-1]).
rematch_allLines(text, ls, threshold) ==
    IF Len(ls) < 2 THEN 0
    ELSE firstMatch(text, ls, threshold, 1, Len(ls))

\* The same without the length check of lines 151-152.
rematch_noLengthCheck(text, ls, threshold) ==
    firstMatch(text, ls, threshold, 1, Len(ls))

\* Lines 151-158: the position (from 1) of the matched line, 0 to continue.
rematch(text, ls, threshold) ==
    IF Len(ls) < 2 THEN 0
    ELSE firstMatch(text, ls, threshold, 1, Len(ls) - 1)

\* Line 159: the position read for next_line.
nextIndex(i) == i + 1

song_name(song) == IF song.has_name THEN song.name ELSE UnknownSong

\* Lines 135-140 from rank k on: <<"fetch", j>> when the loop reaches
\* get_lyrics for candidate j, <<"raise", j>> when song.get fails on an entry
\* that is no object, <<"end", j>> when the loop runs out.
RECURSIVE nextCandidate(_, _)
nextCandidate(sgs, k) ==
    IF k > Len(sgs) THEN <<"end", k>>
    ELSE IF ~sgs[k].obj THEN <<"raise", k>>
    ELSE IF sgs[k].id = 0 THEN nextCandidate(sgs, k + 1)
    ELSE <<"fetch", k>>

(***************************************************************************)
(* Main.cmd_lyric_match: prompt_template.format(lyric=..., next_line=...,  *)
(* song_name=...).  A template is a sequence of pieces, each a literal     *)
(* text or a replacement field {name}.                                     *)
(***************************************************************************)
Lit(s) == [lit |-> TRUE, s |-> s]
Field(name) == [lit |-> FALSE, s |-> name]

\* The default of line 87, its Chinese literals written in ASCII.
DefaultPrompt == <<Lit("user sang: '"), Field("lyric"), Lit("', next is: '"),
                   Field("next_line"), Lit("'. Please respond.")>>

\* Values of config["trigger_prompt"]: the default, one that names the song,
\* and one with a field format() is not given.
Templates == { DefaultPrompt,
               <<Field("song_name"), Lit(": "), Field("next_line")>>,
               <<Field("lyric"), Lit(" by "), Field("artist")>> }

FormatFields == { "lyric", "next_line", "song_name" }

\* str.format: KeyError on a field that is no keyword argument, otherwise the
\* pieces with each field replaced by its argument.
format(template, kwargs) ==
    IF \E i \in 1..Len(template) : ~template[i].lit /\ template[i].s \notin FormatFields
    THEN [ok |-> FALSE, parts |-> <<>>]
    ELSE [ok |-> TRUE,
          parts |-> [i \in 1..Len(template) |->
                        IF template[i].lit THEN template[i].s ELSE kwargs[template[i].s]]]

\* An outbound message: MessageChain([Plain(...)]).
Message(kind, parts) == [kind |-> kind, parts |-> parts]

(***************************************************************************)
(* State machine                                                           *)
(***************************************************************************)
\* No call of parse_lyrics has returned.
Unparsed == [done |-> FALSE, lines |-> <<>>]

\* The resolutions that can be in flight at once.
Tasks == { "t1", "t2" }

\* The locals of a call of find_matching_lyric that has not started.
NoFrame == [user_text |-> <<>>, songs |-> <<>>, idx |-> 0, outcome |-> "none",
            result |-> <<>>]
NoHeard == [api_set |-> FALSE, text |-> <<>>, searched |-> FALSE, songs |-> <<>>,
            lyrics |-> <<>>]

NoTasks == /\ task_pc = [t \in Tasks |-> "idle"]
           /\ frames = [t \in Tasks |-> NoFrame]
           /\ heard = [t \in Tasks |-> NoHeard]
           /\ task_session = [t \in Tasks |-> "none"]
           /\ task_awaiting = [t \in Tasks |-> "none"]

NoCall == /\ simA = <<>>
          /\ simB = <<>>
          /\ simScore = <<>>
          /\ parseIn = <<>>
          /\ parseOut = Unparsed
          /\ NoTasks

\* Main.__init__: the defaults of lines 85 (0.6) and 86.
DefaultThreshold == <<3, 5>>
DefaultMaxSearchResults == 5

\* The state after construction but for the configuration.
Constructed ==
    /\ http_session = "None"
    /\ api = "None"
    /\ call_session = "none"
    /\ awaiting = "none"
    /\ pc = "idle"
    /\ cmd_lyric_text = <<>>
    /\ outbox = <<>>
    /\ search_calls = 0
    /\ user_text = <<>>
    /\ songs = <<>>
    /\ idx = 0
    /\ lines = <<>>
    /\ outcome = "none"
    /\ exc = "none"
    /\ result = <<>>
    /\ sent = "none"
    /\ search_status = -1
    /\ fetchLog = <<>>
    /\ lastFetch = "none"
    /\ resolved_text = <<>>
    /\ resolved_lines = <<>>

PluginInit ==
    /\ similarity_threshold \in Thresholds
    /\ max_search_results = DefaultMaxSearchResults
    /\ trigger_prompt = DefaultPrompt
    /\ Constructed

Init == PluginInit /\ NoCall

\* The answers a request may get, by the state its session had when the call
\* was made.  session.get on a session that is closed raises and no response
\* arrives.  A request made on an open session gets any answer, also once
\* terminate() has closed that session: what had arrived before is read when
\* the coroutine resumes.
answersOn(session, responses) ==
    IF session = "open" THEN responses ELSE { r \in responses : r.status = 0 }

\* async with self.session.get(...) as r (lines 32, 46) gives a response of
\* status 200: the call goes on to its second await, r.json() (lines 36, 50).
reachesBody(status, session) == session = "open" /\ status = 200

\* The status lines the responses of a set carry, 0 for the request that
\* fails.
statusesOf(responses) == { r.status : r \in responses }

\* The answers that end a call at the await it is at: at the first a failed
\* request or a status other than 200, at the second the body of the
\* response of status 200, or the failure to read it.
endsCall(resp, session, at) ==
    IF at = "body" THEN resp.status = 200 ELSE ~reachesBody(resp.status, session)

\* Main.initialize: a new session and a new NeteaseLyricsAPI on it, whatever
\* the plugin held before; an earlier session is neither closed nor kept, and
\* a call being awaited stays with the NeteaseLyricsAPI it was made on.
Initialize ==
    /\ http_session' = "open"
    /\ api' = "set"
    /\ UNCHANGED <<config, sessionVars, invocationVars, callVars>>

\* Main.terminate: closes the session self.http_session refers to; the calls
\* being awaited are not cancelled.
Terminate ==
    /\ http_session = "open"
    /\ http_session' = "closed"
    /\ UNCHANGED <<config, api, sessionVars, invocationVars, callVars>>

\* find_matching_lyric returns None; cmd_lyric_match sends the not-found message.
ReturnNone ==
    /\ pc' = "idle"
    /\ call_session' = "none"
    /\ awaiting' = "none"
    /\ outcome' = "nomatch"
    /\ exc' = "none"
    /\ result' = <<>>
    /\ sent' = "notfound"
    /\ outbox' = Append(outbox, Message("notfound", <<>>))

\* find_matching_lyric raises e and cmd_lyric_match has no except clause: the
\* exception leaves the handler and nothing is sent.
Raise_escapes(e) ==
    /\ pc' = "idle"
    /\ call_session' = "none"
    /\ awaiting' = "none"
    /\ outcome' = "raised"
    /\ exc' = e
    /\ result' = <<>>
    /\ sent' = "none"
    /\ outbox' = outbox

\* find_matching_lyric raises e; cmd_lyric_match's except clause sends the
\* failure message.
Raise(e) ==
    /\ pc' = "idle"
    /\ call_session' = "none"
    /\ awaiting' = "none"
    /\ outcome' = "raised"
    /\ exc' = e
    /\ result' = <<>>
    /\ sent' = "failure"
    /\ outbox' = Append(outbox, Message("failure", <<e>>))

\* The for loop of find_matching_lyric from rank k on, up to its next await.
LoopFrom(sgs, k) ==
    LET nc == nextCandidate(sgs, k)
    IN  /\ idx' = nc[2]
        /\ CASE nc[1] = "fetch" ->
                  /\ pc' = "fetch"
                  /\ call_session' = http_session
                  /\ awaiting' = "response"
                  /\ fetchLog' = Append(fetchLog, nc[2])
                  /\ UNCHANGED <<outcome, exc, result, sent, outbox>>
             [] nc[1] = "raise" ->
                  /\ Raise("AttributeError:song")
                  /\ UNCHANGED fetchLog
             [] OTHER ->
                  /\ ReturnNone
                  /\ UNCHANGED fetchLog

\* cmd_lyric_match after find_matching_lyric returned res: the prompt is
\* formatted and sent, or format's exception reaches the except clause.
ReturnResult(res) ==
    LET prompt == format(trigger_prompt,
                         [lyric |-> res[2], next_line |-> res[3], song_name |-> res[1]])
    IN  /\ pc' = "idle"
        /\ call_session' = "none"
        /\ awaiting' = "none"
        /\ outcome' = "result"
        /\ result' = res
        /\ IF prompt.ok
           THEN /\ exc' = "none"
                /\ sent' = "prompt"
                /\ outbox' = Append(outbox, Message("prompt", prompt.parts))
           ELSE /\ exc' = "KeyError"
                /\ sent' = "failure"
                /\ outbox' = Append(outbox, Message("failure", <<"KeyError">>))

\* A loop that tries the candidate at rank k again.
nextRank_same(k) == k

\* for idx, song in enumerate(songs, 1): the rank after rank k.
nextRank(k) == k + 1

\* cmd_lyric_match up to its first await: the usage hint for a blank text,
\* otherwise find_matching_lyric up to the await of search_songs.
CmdStart(args) ==
    /\ pc = "idle"
    /\ cmd_lyric_text' = join(<<" ">>, args)
    /\ user_text' = strip(cmd_lyric_text')
    /\ songs' = <<>>
    /\ idx' = 0
    /\ lines' = <<>>
    /\ result' = <<>>
    /\ search_status' = -1
    /\ fetchLog' = <<>>
    /\ lastFetch' = "none"
    /\ IF strip(cmd_lyric_text') = <<>>
       THEN /\ sent' = "usage"
            /\ outbox' = <<Message("usage", <<>>)>>
            /\ search_calls' = 0
            /\ pc' = "idle"
            /\ call_session' = "none"
            /\ awaiting' = "none"
            /\ outcome' = "none"
            /\ exc' = "none"
       ELSE IF api = "None"
       THEN /\ sent' = "failure"
            /\ outbox' = <<Message("failure", <<"AttributeError:api">>)>>
            /\ search_calls' = 0
            /\ pc' = "idle"
            /\ call_session' = "none"
            /\ awaiting' = "none"
            /\ outcome' = "raised"
            /\ exc' = "AttributeError:api"
       ELSE /\ sent' = "none"
            /\ outbox' = <<>>
            /\ search_calls' = 1
            /\ pc' = "search"
            /\ call_session' = http_session
            /\ awaiting' = "response"
            /\ outcome' = "none"
            /\ exc' = "none"
    /\ UNCHANGED <<pluginState, taskCalls, callVars>>

\* The answers the awaited call of the handler may get, and the status
\* lines of the responses.
SearchAnswers == answersOn(call_session, SearchResponses)
LyricAnswers == answersOn(call_session, LyricResponses)
SearchStatuses == statusesOf(SearchResponses)
LyricStatuses == statusesOf(LyricResponses)

\* search_songs passes its first await: the response has status 200 (lines
\* 32-35) and its body is awaited (line 36).
SearchAnswered(status) ==
    /\ pc = "search"
    /\ awaiting = "response"
    /\ reachesBody(status, call_session)
    /\ awaiting' = "body"
    /\ search_status' = status
    /\ UNCHANGED <<pluginState, call_session, taskCalls, pc, cmd_lyric_text, user_text, songs,
                   idx, lines, outcome, exc, result, sent, outbox, search_calls, fetchLog,
                   lastFetch, callVars>>

\* search_songs returns, from its first await or from its second: lines
\* 129-140 and the loop up to the next await.
SearchReturn(resp) ==
    /\ pc = "search"
    /\ endsCall(resp, call_session, awaiting)
    /\ search_status' = resp.status
    /\ songs' = search_songs(resp, call_session)
    /\ IF songs' = <<>>
       THEN /\ ReturnNone
            /\ UNCHANGED <<idx, fetchLog>>
       ELSE LoopFrom(songs', 1)
    /\ UNCHANGED <<pluginState, taskCalls, cmd_lyric_text, user_text, lines, lastFetch,
                   search_calls, callVars>>

\* get_lyrics passes its first await: the response has status 200 (lines
\* 46-49) and its body is awaited (line 50).
LyricsAnswered(status) ==
    /\ pc = "fetch"
    /\ awaiting = "response"
    /\ reachesBody(status, call_session)
    /\ awaiting' = "body"
    /\ UNCHANGED <<pluginState, call_session, taskCalls, invocationVars, callVars>>

\* get_lyrics returns for the candidate at idx, from its first await or from
\* its second: lines 144-160, then the loop up to the next await.
LyricsReturn(resp) ==
    /\ pc = "fetch"
    /\ endsCall(resp, call_session, awaiting)
    /\ LET lyrics_data == get_lyrics(resp, call_session)
           parsed == parsedText[lyrics_data.lyric]
           i == rematch(user_text, parsed, similarity_threshold)
       IN  IF ~lyrics_data.present
           THEN /\ lastFetch' = "failed"
                /\ LoopFrom(songs, nextRank(idx))
                /\ UNCHANGED lines
           ELSE IF ~lyrics_data.is_text
           THEN /\ lastFetch' = "nontext"
                /\ Raise("AttributeError:lyric")
                /\ UNCHANGED <<idx, fetchLog, lines>>
           ELSE /\ lastFetch' = "ok"
                /\ lines' = parsed
                /\ IF i = 0
                   THEN LoopFrom(songs, nextRank(idx))
                   ELSE IF nextIndex(i) > Len(parsed)
                   THEN /\ Raise("IndexError")
                        /\ UNCHANGED <<idx, fetchLog>>
                   ELSE /\ ReturnResult(<<song_name(songs[idx]), parsed[i],
                                          parsed[nextIndex(i)], songs[idx].id>>)
                        /\ UNCHANGED <<idx, fetchLog>>
    /\ UNCHANGED <<pluginState, taskCalls, cmd_lyric_text, user_text, songs,
                   search_status, search_calls, callVars>>

Next ==
    \/ Initialize /\ UNCHANGED historyVars
    \/ Terminate /\ UNCHANGED historyVars
    \/ pc = "idle" /\ \E args \in ArgLists : CmdStart(args) /\ UNCHANGED historyVars
    \/ pc = "search" /\ \E status \in SearchStatuses : SearchAnswered(status) /\ UNCHANGED historyVars
    \/ pc = "search" /\ \E resp \in SearchAnswers : SearchReturn(resp) /\ UNCHANGED historyVars
    \/ pc = "fetch" /\ \E status \in LyricStatuses : LyricsAnswered(status) /\ UNCHANGED historyVars
    \/ pc = "fetch" /\ \E resp \in LyricAnswers : LyricsReturn(resp) /\ UNCHANGED historyVars

Spec == Init /\ [][Next]_vars

\* The await of search_songs and the await of get_lyrics end: the session's
\* ClientTimeout(total=20) bounds every request, so each returns or fails.
SearchReturns ==
    pc = "search" /\ \E resp \in SearchAnswers : SearchAnswered(resp.status) \/ SearchReturn(resp)
LyricsReturns ==
    pc = "fetch" /\ \E resp \in LyricAnswers : LyricsAnswered(resp.status) \/ LyricsReturn(resp)

\* The plugin with every remote call returning or failing in the end.
LiveSpec ==
    /\ Init
    /\ [][Next]_vars
    /\ WF_vars(SearchReturns /\ UNCHANGED historyVars)
    /\ WF_vars(LyricsReturns /\ UNCHANGED historyVars)

(***************************************************************************)
(* The same plugin with the history of its latest result kept: what the    *)
(* latest resolution that returned a result was asked and the lines it     *)
(* parsed.  The code keeps neither.                                        *)
(***************************************************************************)
HistArgLists == SeqsUpTo(ArgWords, HistMaxArgs)
HistSearchResponses == SearchResponsesUpTo(HistMaxSongs)

HistSearchAnswers == answersOn(call_session, HistSearchResponses)

Record ==
    IF outcome' = "result"
    THEN /\ resolved_text' = user_text
         /\ resolved_lines' = lines'
    ELSE UNCHANGED historyVars

HistNext ==
    \/ Initialize /\ UNCHANGED historyVars
    \/ Terminate /\ UNCHANGED historyVars
    \/ pc = "idle" /\ \E args \in HistArgLists : CmdStart(args) /\ UNCHANGED historyVars
    \/ pc = "search" /\ \E status \in SearchStatuses : SearchAnswered(status) /\ UNCHANGED historyVars
    \/ pc = "search" /\ \E resp \in HistSearchAnswers : SearchReturn(resp) /\ UNCHANGED historyVars
    \/ pc = "fetch" /\ \E status \in LyricStatuses : LyricsAnswered(status) /\ UNCHANGED historyVars
    \/ pc = "fetch" /\ \E resp \in LyricAnswers : LyricsReturn(resp) /\ Record

HistSpec == Init /\ [][HistNext]_vars

(***************************************************************************)
(* The same plugin constructed with other configurations: __init__ takes   *)
(* the values of the config it is given as they are.                       *)
(***************************************************************************)
\* Values of config["similarity_threshold"]: those of Thresholds, -1.0, 1.5.
ConfigThresholds == Thresholds \cup { <<-1, 1>>, <<3, 2>> }

\* Values of config["max_search_results"].
ConfigLimits == { 1, DefaultMaxSearchResults }

ConfigInit ==
    /\ similarity_threshold \in ConfigThresholds
    /\ max_search_results \in ConfigLimits
    /\ trigger_prompt = DefaultPrompt
    /\ Constructed
    /\ NoCall

ConfigSpec == ConfigInit /\ [][Next]_vars

(***************************************************************************)
(* The same plugin constructed with each trigger_prompt, at the default    *)
(* threshold.                                                              *)
(***************************************************************************)
PromptInit ==
    /\ similarity_threshold = DefaultThreshold
    /\ max_search_results = DefaultMaxSearchResults
    /\ trigger_prompt \in Templates
    /\ Constructed
    /\ NoCall

PromptSpec == PromptInit /\ [][Next]_vars

(***************************************************************************)
(* calculate_similarity as a function of two texts                         *)
(***************************************************************************)
SimChars == { "a", "A", "b", " " }
SimTexts == SeqsUpTo(SimChars, MaxSimLen)

SimInit ==
    /\ PluginInit
    /\ simA \in SimTexts
    /\ simB \in SimTexts
    /\ simScore = <<>>
    /\ parseIn = <<>>
    /\ parseOut = Unparsed
    /\ NoTasks

SimCall ==
    /\ simScore = <<>>
    /\ simScore' = calculate_similarity(simA, simB)
    /\ UNCHANGED <<pluginState, sessionVars, invocationVars, historyVars, simA, simB,
                   parseVars, concVars>>

SimNext == SimCall

SimSpec == SimInit /\ [][SimNext]_vars

(***************************************************************************)
(* parse_lyrics as a function of a raw LRC text                            *)
(***************************************************************************)
\* A credit line as the provider sends it, "[00:01.00]zuo ci : A": the two
\* Chinese characters of "lyrics by" are written as the one-character
\* strings "zuo" and "ci".
CreditLine == TagDot \o <<"zuo", "ci", " ", ":", " ", "A">>

\* Raw lines: lyric lines with one and with two tags, a line of a tag only,
\* a blank line and a credit line.
ParseLines == RawLines \cup { TagOnlyLine, <<" ">>, CreditLine }
ParseTexts == { join(<<"\n">>, ls) : ls \in SeqsUpTo(ParseLines, MaxLines) }

ParseInit ==
    /\ PluginInit
    /\ simA = <<>>
    /\ simB = <<>>
    /\ simScore = <<>>
    /\ parseIn \in ParseTexts
    /\ parseOut = Unparsed
    /\ NoTasks

ParseCall ==
    /\ ~parseOut.done
    /\ parseOut' = [done |-> TRUE, lines |-> parse_lyrics(parseIn)]
    /\ UNCHANGED <<pluginState, sessionVars, invocationVars, historyVars, simVars, parseIn,
                   concVars>>

ParseNext == ParseCall

ParseSpec == ParseInit /\ [][ParseNext]_vars

(***************************************************************************)
(* Several calls of find_matching_lyric in flight at once: one asyncio      *)
(* task per command, each suspended at its await of search_songs or of     *)
(* get_lyrics while the others run.                                        *)
(***************************************************************************)
\* The frame that holds the locals of resolution t, were they attributes of
\* the plugin: one frame for all.
frameOf_shared(t) == "t1"

\* The frame that holds the locals of resolution t: its own.
frameOf(t) == t

\* find_matching_lyric(text) up to its first await.
started(text, api_) ==
    [pc |-> IF api_ = "None" THEN "done" ELSE "search",
     user_text |-> text, songs |-> <<>>, idx |-> 0,
     outcome |-> IF api_ = "None" THEN "raised" ELSE "none",
     result |-> <<>>]

\* The for loop from rank k on, up to its next await or its return.
afterLoop(r, k) ==
    LET nc == nextCandidate(r.songs, k)
    IN  CASE nc[1] = "fetch" -> [r EXCEPT !.pc = "fetch", !.idx = nc[2]]
          [] nc[1] = "raise" -> [r EXCEPT !.pc = "done", !.idx = nc[2], !.outcome = "raised"]
          [] OTHER -> [r EXCEPT !.pc = "done", !.idx = nc[2], !.outcome = "nomatch"]

\* search_songs returned sgs: lines 129-143.
afterSearch(r, sgs) ==
    IF sgs = <<>> THEN [r EXCEPT !.pc = "done", !.outcome = "nomatch"]
    ELSE afterLoop([r EXCEPT !.songs = sgs], 1)

\* get_lyrics returned lyrics_data for the candidate at r.idx: lines 144-162.
afterLyrics(r, lyrics_data, threshold) ==
    LET parsed == parsedText[lyrics_data.lyric]
        i == rematch(r.user_text, parsed, threshold)
    IN  IF ~lyrics_data.present THEN afterLoop(r, nextRank(r.idx))
        ELSE IF ~lyrics_data.is_text THEN [r EXCEPT !.pc = "done", !.outcome = "raised"]
        ELSE IF i = 0 THEN afterLoop(r, nextRank(r.idx))
        ELSE IF nextIndex(i) > Len(parsed) THEN [r EXCEPT !.pc = "done", !.outcome = "raised"]
        ELSE [r EXCEPT !.pc = "done", !.outcome = "result",
                       !.result = <<song_name(r.songs[r.idx]), parsed[i],
                                    parsed[nextIndex(i)], r.songs[r.idx].id>>]

\* The locals and the position of resolution t, and their update.
resolution(t) ==
    [pc |-> task_pc[t],
     user_text |-> frames[frameOf(t)].user_text, songs |-> frames[frameOf(t)].songs,
     idx |-> frames[frameOf(t)].idx, outcome |-> frames[frameOf(t)].outcome,
     result |-> frames[frameOf(t)].result]

store(t, r) ==
    /\ task_pc' = [task_pc EXCEPT ![t] = r.pc]
    /\ task_session' = [task_session EXCEPT ![t] =
                            IF r.pc \in { "search", "fetch" } THEN http_session ELSE "none"]
    /\ task_awaiting' = [task_awaiting EXCEPT ![t] =
                             IF r.pc \in { "search", "fetch" } THEN "response" ELSE "none"]
    /\ frames' = [frames EXCEPT ![frameOf(t)] =
                      [user_text |-> r.user_text, songs |-> r.songs, idx |-> r.idx,
                       outcome |-> r.outcome, result |-> r.result]]

\* The texts of the commands, the songs of the search answers and the lyric
\* answers of the concurrent resolutions.
ConcTexts == { <<"A">>, <<"b">> }
ConcSongs == { SongA, SongB }
ConcSearchResponses ==
    { [status |-> 0, body |-> "none", songs |-> <<>>],
      [status |-> 200, body |-> "nojson", songs |-> <<>>] }
    \cup { [status |-> 200, body |-> "list", songs |-> l] :
              l \in SeqsUpTo(ConcSongs, ConcMaxSongs) }
ConcLyricResponses ==
    { [status |-> 0, body |-> "none", lyric |-> <<>>],
      [status |-> 200, body |-> "nojson", lyric |-> <<>>],
      [status |-> 200, body |-> "text",
       lyric |-> join(<<"\n">>, <<TagDot \o <<"A">>, TagDot \o <<"A">>>>)] }

\* A command starts resolution t.
ConcStart(t, text) ==
    /\ task_pc[t] \in { "idle", "done" }
    /\ store(t, started(text, api))
    /\ heard' = [heard EXCEPT ![t] = [NoHeard EXCEPT !.api_set = (api # "None"),
                                                     !.text = text]]
    /\ UNCHANGED <<pluginState, handlerCall, invocationVars, historyVars, simVars,
                   parseVars>>

\* The call that resolution t awaits passes its first await.
ConcAnswered(t, status) ==
    /\ task_pc[t] \in { "search", "fetch" }
    /\ task_awaiting[t] = "response"
    /\ reachesBody(status, task_session[t])
    /\ task_awaiting' = [task_awaiting EXCEPT ![t] = "body"]
    /\ UNCHANGED <<pluginState, handlerCall, task_session, invocationVars, historyVars,
                   simVars, parseVars, concVars>>

\* The search of resolution t returns.
ConcSearchReturn(t, resp) ==
    /\ task_pc[t] = "search"
    /\ endsCall(resp, task_session[t], task_awaiting[t])
    /\ LET sgs == search_songs(resp, task_session[t])
       IN  /\ store(t, afterSearch(resolution(t), sgs))
           /\ heard' = [heard EXCEPT ![t].searched = TRUE, ![t].songs = sgs]
    /\ UNCHANGED <<pluginState, handlerCall, invocationVars, historyVars, simVars,
                   parseVars>>

\* The lyric fetch of resolution t returns.
ConcLyricsReturn(t, resp) ==
    /\ task_pc[t] = "fetch"
    /\ endsCall(resp, task_session[t], task_awaiting[t])
    /\ LET lyrics_data == get_lyrics(resp, task_session[t])
       IN  /\ store(t, afterLyrics(resolution(t), lyrics_data, similarity_threshold))
           /\ heard' = [heard EXCEPT ![t].lyrics = Append(@, lyrics_data)]
    /\ UNCHANGED <<pluginState, handlerCall, invocationVars, historyVars, simVars,
                   parseVars>>

ConcInit ==
    /\ similarity_threshold = DefaultThreshold
    /\ max_search_results = DefaultMaxSearchResults
    /\ trigger_prompt = DefaultPrompt
    /\ Constructed
    /\ NoCall

ConcNext ==
    \/ Initialize /\ UNCHANGED historyVars
    \/ Terminate /\ UNCHANGED historyVars
    \/ \E t \in Tasks : \E text \in ConcTexts : ConcStart(t, text)
    \/ \E t \in Tasks : \E status \in statusesOf(ConcSearchResponses) : ConcAnswered(t, status)
    \/ \E t \in Tasks : \E resp \in answersOn(task_session[t], ConcSearchResponses) :
              ConcSearchReturn(t, resp)
    \/ \E t \in Tasks : \E resp \in answersOn(task_session[t], ConcLyricResponses) :
              ConcLyricsReturn(t, resp)

ConcSpec == ConcInit /\ [][ConcNext]_vars

(***************************************************************************)
(* Properties of a resolution (specification Spec)                         *)
(***************************************************************************)
\* A text of whitespace only.
Blank(text) == \A i \in 1..Len(text) : text[i] \in Whitespace

\* The acceptance test of line 158, stated on its own.
Accepted(text, line) ==
    LET score == similarity(text, line)
    IN  score[1] * similarity_threshold[2] >= similarity_threshold[1] * score[2]

\* The non-last positions of ls whose line is accepted.
AcceptedAt(text, ls) == { i \in 1..(Len(ls) - 1) : Accepted(text, ls[i]) }

\* The candidate at rank j has a usable id.
Fetchable(j) == songs[j].obj /\ songs[j].id # 0

\* A step in which get_lyrics returns for the candidate at idx.
FetchReturns == pc = "fetch" /\ (pc' = "idle" \/ idx' # idx)

\* C1: a returned result is (name, line i, line i + 1, id) for a position i
\* of the lines parsed from the lyric fetched for that candidate, i is not the
\* last position, and no line past the end is ever read.
C1_NextLineFollowsMatch ==
    /\ exc # "IndexError"
    /\ outcome = "result" =>
          /\ lastFetch = "ok"
          /\ idx \in 1..Len(songs)
          /\ fetchLog # <<>> /\ fetchLog[Len(fetchLog)] = idx
          /\ result[4] = songs[idx].id
          /\ \E i \in 1..(Len(lines) - 1) :
                /\ result[2] = lines[i]
                /\ result[3] = lines[i + 1]

\* A result whose next line is the last of three lines.
C1_Witness ==
    /\ outcome = "result"
    /\ Len(lines) = 3
    /\ lines[1] # lines[2]
    /\ result[2] = lines[2]
    /\ result[3] = lines[3]

\* The candidates before the loop's position are the ones with a usable id,
\* requested in increasing rank.
C2_InRankOrder ==
    /\ \A n \in 1..(Len(fetchLog) - 1) : fetchLog[n] < fetchLog[n + 1]
    /\ \A n \in 1..Len(fetchLog) : fetchLog[n] <= idx /\ Fetchable(fetchLog[n])
    /\ \A j \in 1..Len(songs) :
          j < idx => /\ songs[j].obj
                     /\ (songs[j].id # 0 <=> \E n \in 1..Len(fetchLog) : fetchLog[n] = j)

\* When get_lyrics returns for a candidate, the resolution returns a result
\* exactly when the fetch gave a lyric with at least 2 parsed lines and an
\* accepted non-last line; the result is that candidate's earliest accepted
\* line with the line after it; and None is returned only past the last
\* candidate.
C2_FirstSatisfyingWins ==
    FetchReturns =>
        LET hits == IF lastFetch' = "ok" /\ Len(lines') >= 2
                    THEN AcceptedAt(user_text, lines') ELSE {}
        IN  /\ hits # {} =>
                  /\ outcome' = "result"
                  /\ \E i \in hits :
                        /\ \A j \in hits : i <= j
                        /\ result' = <<song_name(songs[idx]), lines'[i], lines'[i + 1],
                                       songs[idx].id>>
            /\ hits = {} => outcome' # "result"
            /\ outcome' = "nomatch" => idx' > Len(songs)

\* C2: candidates are tried one at a time in rank order and the result comes
\* from the first candidate in that order that satisfies the matcher (usable
\* id, successful fetch, at least 2 parsed lines, an accepted non-last line),
\* by its earliest accepted non-last line; a resolution in which some
\* candidate satisfies the matcher, and nothing raises, returns a result.
C2_FirstRankOrderCandidate ==
    /\ []C2_InRankOrder
    /\ [][C2_FirstSatisfyingWins]_vars

\* The second candidate gives the result, by its second line, after the
\* first candidate's lyric was fetched.
C2_Witness ==
    /\ outcome = "result"
    /\ fetchLog = <<1, 2>>
    /\ Len(lines) = 3
    /\ Accepted(user_text, lines[1]) = FALSE
    /\ result[2] = lines[2]

\* C3: once a remote step has had its outcome, whatever it is,
\* find_matching_lyric does not raise.
C3_RemoteFailureIsAMiss ==
    search_status # -1 => outcome # "raised"

\* The step in which a search that failed or found no songs returns.
C4_EmptySearchStep ==
    (pc = "search" /\ pc' # "search" /\ (search_status' # 200 \/ songs' = <<>>)) =>
        /\ pc' = "idle"
        /\ outcome' = "nomatch"
        /\ result' = <<>>
        /\ fetchLog' = <<>>
        /\ sent' = "notfound"
        /\ UNCHANGED <<pluginState, historyVars>>

\* C4: when the search fails or returns no songs, find_matching_lyric returns
\* None without requesting any lyric and without changing the plugin's state.
C4_EmptySearchIsNoMatch == [][C4_EmptySearchStep]_vars

\* The search got a non-200 answer on an open session.
C4_Witness ==
    /\ search_status = 500
    /\ user_text # <<>>
    /\ outcome = "nomatch"
    /\ fetchLog = <<>>
    /\ http_session = "open"

\* C5: a lyric that parses to fewer than 2 lines gives no result; when it is
\* the lyric of the only candidate, the resolution returns None.
C5_ShortLyricUnusable ==
    /\ outcome = "result" => Len(lines) >= 2
    /\ (pc = "idle" /\ Len(songs) = 1 /\ lastFetch = "ok" /\ Len(lines) < 2) =>
          (outcome = "nomatch" /\ result = <<>> /\ sent = "notfound")

\* The only candidate's lyric parses to the one line the query is.
C5_Witness ==
    /\ pc = "idle"
    /\ Len(songs) = 1
    /\ lastFetch = "ok"
    /\ lines = <<user_text>>
    /\ outcome = "nomatch"

\* C8 as claimed: no lyric is requested once a fetch has given at least 2
\* parsed lines.
C8_StopsAtFirstTwoLines ==
    pc = "fetch" => ~(lastFetch = "ok" /\ Len(lines) >= 2)

\* C8 amended: no lyric is requested once a fetch has given at least 2 parsed
\* lines with an accepted non-last line, and the resolution that returns a
\* result requested no lyric after the chosen candidate's.
C8_StopsAtFirstMatch ==
    /\ pc = "fetch" =>
          ~(lastFetch = "ok" /\ Len(lines) >= 2 /\ AcceptedAt(user_text, lines) # {})
    /\ outcome = "result" =>
          /\ pc = "idle"
          /\ fetchLog # <<>> /\ fetchLog[Len(fetchLog)] = idx
          /\ AcceptedAt(user_text, lines) # {}

\* A result from the first candidate, with a second, usable candidate left
\* unrequested.
C8_Witness ==
    /\ outcome = "result"
    /\ fetchLog = <<1>>
    /\ Len(songs) = 2
    /\ Fetchable(2)

\* The search has returned before any lyric is requested; the lyrics are
\* requested one at a time, in increasing rank, each rank at most once, only
\* for candidates with a usable id, and none after the candidate that gave the
\* result.
C14_FetchDiscipline ==
    /\ search_calls <= 1
    /\ pc = "search" =>
          /\ search_calls = 1
          /\ search_status = (IF awaiting = "body" THEN 200 ELSE -1)
          /\ fetchLog = <<>>
    /\ fetchLog # <<>> => (search_calls = 1 /\ search_status # -1)
    /\ pc = "fetch" => (fetchLog # <<>> /\ fetchLog[Len(fetchLog)] = idx)
    /\ \A n \in 1..(Len(fetchLog) - 1) : fetchLog[n] < fetchLog[n + 1]
    /\ \A n \in 1..Len(fetchLog) :
          /\ fetchLog[n] \in 1..Len(songs)
          /\ Fetchable(fetchLog[n])
          /\ \A j \in 1..(fetchLog[n] - 1) :
                Fetchable(j) => \E m \in 1..(n - 1) : fetchLog[m] = j
    /\ outcome = "result" =>
          (pc = "idle" /\ fetchLog # <<>> /\ fetchLog[Len(fetchLog)] = idx)

\* C14 as claimed: a resolution issues exactly one search request, and its
\* lyric fetches follow the search one at a time in rank order.
C14_ExactlyOneSearch ==
    /\ user_text # <<>> => search_calls = 1
    /\ C14_FetchDiscipline

\* C14 amended: a resolution issues exactly one search request unless api is
\* None when it starts, and then none; its lyric fetches follow the search one
\* at a time in rank order, at most once per candidate, never for a candidate
\* without a usable id and never after a match.
C14_OneSearchBeforeFetches ==
    /\ user_text # <<>> =>
          search_calls = (IF exc = "AttributeError:api" THEN 0 ELSE 1)
    /\ exc = "AttributeError:api" => (pc = "idle" /\ fetchLog = <<>>)
    /\ C14_FetchDiscipline

\* A result from the second candidate after the first one's lyric was
\* requested and gave no match.
C14_Witness ==
    /\ outcome = "result"
    /\ search_calls = 1
    /\ fetchLog = <<1, 2>>
    /\ idx = 2

\* t is raw without its leading and trailing whitespace, and is not empty.
IsStripOf(t, raw) ==
    \E i \in 1..Len(raw) : \E j \in i..Len(raw) :
        /\ t = SubSeq(raw, i, j)
        /\ raw[i] \notin Whitespace /\ raw[j] \notin Whitespace
        /\ \A k \in 1..Len(raw) : (k < i \/ k > j) => raw[k] \in Whitespace

\* The step in which cmd_lyric_match is invoked.
C17_CommandStep ==
    (pc = "idle" /\ invocationVars' # invocationVars) =>
        IF Blank(cmd_lyric_text')
        THEN /\ pc' = "idle"
             /\ sent' = "usage"
             /\ search_calls' = 0 /\ search_status' = -1 /\ fetchLog' = <<>>
             /\ outcome' = "none"
             /\ UNCHANGED <<pluginState, historyVars>>
        ELSE /\ IsStripOf(user_text', cmd_lyric_text')
             /\ pc' = "search" \/ (api = "None" /\ outcome' = "raised")

\* C17: a command whose joined arguments are blank makes no remote call and
\* changes nothing of the plugin's state; a resolution starts only for a text
\* that is not blank, with that text less its leading and trailing whitespace.
C17_BlankCommandIsInert ==
    /\ [][C17_CommandStep]_vars
    /\ [](pc # "idle" => (~Blank(cmd_lyric_text) /\ IsStripOf(user_text, cmd_lyric_text)))

\* The usage hint was sent for arguments of whitespace only, on an
\* initialized plugin, without a search.
C17_Witness ==
    /\ cmd_lyric_text # <<>>
    /\ Blank(cmd_lyric_text)
    /\ api = "set" /\ http_session = "open"
    /\ sent = "usage"
    /\ search_calls = 0

\* A step of the handler in the lifecycle of the plugin, but for where its
\* results come from: before initialize() the command ends at once with the
\* failure message and no remote call; a search called on a closed session
\* ends the command with the not-found message; and whenever the handler
\* ends it has sent its message.
C18_LifecycleStep ==
    (invocationVars' # invocationVars) =>
        /\ (pc = "idle" /\ api = "None" /\ ~Blank(cmd_lyric_text')) =>
              /\ pc' = "idle"
              /\ sent' = "failure"
              /\ search_calls' = 0 /\ search_status' = -1 /\ fetchLog' = <<>>
        /\ (pc = "search" /\ call_session = "closed") =>
              /\ pc' = "idle"
              /\ outcome' = "nomatch"
              /\ sent' = "notfound"
              /\ fetchLog' = <<>>
        /\ pc' = "idle" => (Len(outbox') = 1 /\ outbox'[1].kind = sent')

\* C18: in every ordering of initialize(), terminate() and the handling of
\* commands no exception leaves cmd_lyric_match and no result is produced
\* while the plugin has no open session: before initialize() a command ends
\* with the failure message and no remote call, after terminate() closed the
\* session with the not-found message.
C18_NoResultWithoutSession ==
    [][/\ C18_LifecycleStep
       /\ (invocationVars' # invocationVars /\ outcome' = "result") =>
              (http_session = "open" /\ api = "set")]_vars

\* What the code does keep of C18: a result comes only out of a lyric request
\* made on a session that was open then; terminate() may have closed that
\* session since, or may never close it, when a second initialize() has put
\* another session in its place.
C18_NoResultWithoutRequestSession ==
    /\ [][C18_LifecycleStep]_vars
    /\ [][(invocationVars' # invocationVars /\ outcome' = "result") =>
              (pc = "fetch" /\ call_session = "open" /\ awaiting = "body")]_vars
    /\ [](api = "None" => (pc = "idle" /\ outcome # "result"))

\* A command whose search was called on a closed session has ended with the
\* not-found message.
C18_Witness ==
    /\ http_session = "closed"
    /\ user_text # <<>>
    /\ search_calls = 1
    /\ search_status = 0
    /\ songs = <<>>
    /\ sent = "notfound"

(***************************************************************************)
(* The cache of the specification (specification HistSpec)                 *)
(***************************************************************************)
\* A search or a lyric request is in flight.
RemoteCallInFlight == pc \in { "search", "fetch" }

\* C6: no remote call is made for a query that is a non-last line of the
\* lines kept from an earlier result.
C6_CachedLineNeedsNoRemoteCall ==
    RemoteCallInFlight =>
        ~(\E i \in 1..(Len(resolved_lines) - 1) : resolved_lines[i] = user_text)

\* C7: no remote call is made for a fragment that an earlier resolution
\* resolved through the provider.
C7_RepeatedFragmentNeedsNoRemoteCall ==
    RemoteCallInFlight => user_text # resolved_text

(***************************************************************************)
(* The matcher of the specification                                        *)
(***************************************************************************)
Punctuation == { "[", "]", ":", ".", ",", "!", "?" }

\* Text Normalizer: no punctuation, no whitespace, lower case.
normalize(text) ==
    SelectSeq(lower(text), LAMBDA c : c \notin Punctuation /\ c \notin Whitespace)

isSubstring(sub, text) ==
    \E p \in 0..(Len(text) - Len(sub)) : SubSeq(text, p + 1, p + Len(sub)) = sub

\* Similarity Matcher: containment either way, or a score at the threshold.
SpecMatch(query, candidate) ==
    \/ isSubstring(normalize(query), normalize(candidate))
    \/ isSubstring(normalize(candidate), normalize(query))
    \/ Accepted(query, candidate)

\* C9: the rematch accepts a non-last line whenever the matcher of the
\* specification does: a resolution that parsed a lyric and returned None
\* left no non-last line of it that the matcher accepts.
C9_RematchUsesSpecMatch ==
    (outcome = "nomatch" /\ lastFetch = "ok") =>
        \A i \in 1..(Len(lines) - 1) : ~SpecMatch(user_text, lines[i])

(***************************************************************************)
(* Properties of calculate_similarity (specification SimSpec)              *)
(***************************************************************************)
IsOne(score) == score # <<>> /\ score[1] = score[2]
IsZero(score) == score # <<>> /\ score[1] = 0

\* C10 as claimed: a non-empty text scores 1.0 against itself.
C10_SelfSimilarityIsOne ==
    (simScore # <<>> /\ simA = simB /\ simA # <<>>) => IsOne(simScore)

\* C10 amended: a text with a character other than a space scores 1.0
\* against itself, and a non-empty text of spaces scores 0.0.
C10_SelfSimilarityUnlessBlank ==
    (simScore # <<>> /\ simA = simB /\ simA # <<>>) =>
        IF \E i \in 1..Len(simA) : simA[i] # " "
        THEN IsOne(simScore)
        ELSE IsZero(simScore)

\* The text "Ab" scored against itself.
C10_Witness ==
    /\ simScore # <<>>
    /\ simA = simB
    /\ Len(simA) = 2
    /\ simA[1] = "A"
    /\ simA[2] = "b"
    /\ IsOne(simScore)

(***************************************************************************)
(* Termination of a resolution (specification LiveSpec)                    *)
(***************************************************************************)
\* A resolution that has issued its search ends with a result or with None,
\* whatever the remote calls answer.
C13_EndsInDoneOrNoMatch == [](search_calls = 1 => outcome # "raised")

\* A resolution in progress ends.
C13_Terminates == (pc # "idle") ~> (pc = "idle")

\* The lyric fetch a step issues is for a rank past every rank fetched
\* before in the resolution.
C13_NoRevisit ==
    [][(pc = "fetch" /\ fetchLog' # fetchLog) =>
          /\ fetchLog' = Append(fetchLog, idx')
          /\ \A j \in 1..Len(fetchLog) : fetchLog[j] < idx']_vars

\* C13: every resolution ends, with a result (Done) or with None (NoMatch),
\* whatever the remote calls answer, and fetches no candidate twice.
C13_ResolutionTerminates ==
    /\ C13_EndsInDoneOrNoMatch
    /\ C13_Terminates
    /\ C13_NoRevisit

(***************************************************************************)
(* The messages of the handler (specification PromptSpec)                  *)
(***************************************************************************)
\* The template names a field that format is given no argument for.
HasUnknownField(template) ==
    \E i \in 1..Len(template) :
        ~template[i].lit /\ template[i].s \notin { "lyric", "next_line", "song_name" }

\* msg is the prompt: the template with each field replaced by the matched
\* line, the next line or the song's name of the result res.
IsPromptFor(msg, template, res) ==
    /\ msg.kind = "prompt"
    /\ Len(msg.parts) = Len(template)
    /\ \A i \in 1..Len(template) :
          msg.parts[i] = (CASE template[i].lit -> template[i].s
                            [] template[i].s = "lyric" -> res[2]
                            [] template[i].s = "next_line" -> res[3]
                            [] OTHER -> res[1])

\* A step of the handler: while the resolution is in progress nothing has been
\* sent, and the step that ends the invocation leaves exactly one message,
\* the one its outcome determines.
C16_HandlerStep ==
    (invocationVars' # invocationVars) =>
        IF pc' # "idle" THEN outbox' = <<>> /\ ~Blank(cmd_lyric_text')
        ELSE /\ Len(outbox') = 1
             /\ sent' = outbox'[1].kind
             /\ IF Blank(cmd_lyric_text') THEN outbox'[1].kind = "usage"
                ELSE CASE outcome' = "result" ->
                            IF HasUnknownField(trigger_prompt)
                            THEN outbox'[1].kind = "failure"
                            ELSE IsPromptFor(outbox'[1], trigger_prompt, result')
                       [] outcome' = "nomatch" -> outbox'[1].kind = "notfound"
                       [] outcome' = "raised" -> outbox'[1].kind = "failure"
                       [] OTHER -> FALSE

\* C16: every invocation of cmd_lyric_match sends exactly one message: the
\* usage hint for a blank text, the formatted prompt for a result, the
\* not-found message for no result, the failure message when the resolution
\* or the formatting of the prompt raised; no exception leaves the handler.
C16_OneMessagePerInvocation == [][C16_HandlerStep]_vars

\* A result was found and the formatting of the prompt raised: the failure
\* message is the one message sent.
C16_Witness ==
    /\ outcome = "result"
    /\ HasUnknownField(trigger_prompt)
    /\ Len(outbox) = 1
    /\ outbox[1].kind = "failure"

(***************************************************************************)
(* Properties of the configuration (specification ConfigSpec)              *)
(***************************************************************************)
\* The threshold lies in [0, 1].
ValidThreshold ==
    /\ similarity_threshold[1] >= 0
    /\ similarity_threshold[1] <= similarity_threshold[2]

\* C12: a plugin whose threshold is outside [0, 1] is never constructed, so
\* no resolution is running or has returned under such a threshold.
C12_InvalidThresholdRejected ==
    (pc # "idle" \/ outcome = "result") => ValidThreshold

\* C15: the lyric fetches of one resolution number at most
\* max_search_results.
C15_FetchesWithinLimit ==
    Len(fetchLog) <= max_search_results

(***************************************************************************)
(* Properties of parse_lyrics (specification ParseSpec)                    *)
(***************************************************************************)
\* The prefixes of credit lines: lyrics by (zuo ci), music by (zuo qu),
\* arranged by (bian qu), produced by (zhi zuo ren).
MetadataPrefixes == { <<"zuo", "ci">>, <<"zuo", "qu">>, <<"bian", "qu">>,
                      <<"zhi", "zuo", "ren">> }

\* The line begins with a known metadata prefix.
IsMetadata(line) ==
    \E pre \in MetadataPrefixes :
        Len(line) >= Len(pre) /\ SubSeq(line, 1, Len(pre)) = pre

\* A line contains no time tag.
NoTagIn(line) == \A q \in 1..Len(line) : tagEnd(line, q) = 0

\* The raw lines of a text, each with its tags and outer whitespace removed.
StrippedLines(text) ==
    IF text = <<>> THEN <<>>
    ELSE LET raw == splitLines(text) IN [i \in 1..Len(raw) |-> cleanLine(raw[i])]

\* A stripped line that the parser is to keep.
IsLyricLine(line) == line # <<>> /\ ~IsMetadata(line)

\* C11: parse_lyrics returns exactly the lines of the text that are
\* non-empty and no credit line once their time tags are stripped, in their
\* order, and no returned line has a time tag left.
C11_ParserKeepsLyricLines ==
    parseOut.done =>
        /\ parseOut.lines = SelectSeq(StrippedLines(parseIn), IsLyricLine)
        /\ \A i \in 1..Len(parseOut.lines) : NoTagIn(parseOut.lines[i])

(***************************************************************************)
(* Properties of concurrent resolutions (specification ConcSpec)           *)
(***************************************************************************)
\* What became of a resolution fed, one after the other, the lyric answers
\* datas.
RECURSIVE fed(_, _, _)
fed(r, datas, threshold) ==
    IF datas = <<>> \/ r.pc # "fetch" THEN r
    ELSE fed(afterLyrics(r, Head(datas), threshold), Tail(datas), threshold)

\* The resolution of h.text running alone and getting the answers h records.
alone(h, threshold) ==
    LET r0 == started(h.text, IF h.api_set THEN "set" ELSE "None")
    IN  IF r0.pc = "done" \/ ~h.searched THEN r0
        ELSE fed(afterSearch(r0, h.songs), h.lyrics, threshold)

\* A step of a resolution leaves config, api and http_session as they are.
C19_ResolutionStep ==
    (concVars' # concVars \/ taskCalls' # taskCalls) => UNCHANGED pluginState

\* C19: whatever the interleaving of the resolutions in flight, each one
\* stands where it would stand alone after the same answers to its own
\* requests, so its outcome is the one it would have alone; and no step of a
\* resolution changes config, api or http_session.
C19_ResolutionsDoNotInterfere ==
    /\ [](\A t \in Tasks :
            task_pc[t] # "idle" => resolution(t) = alone(heard[t], similarity_threshold))
    /\ [][C19_ResolutionStep]_vars

\* Two resolutions of different texts are in flight together, each at its
\* second lyric fetch after the same answers.
C19_Witness ==
    /\ task_pc["t1"] = "fetch" /\ task_pc["t2"] = "fetch"
    /\ frames["t1"].user_text # frames["t2"].user_text
    /\ frames["t1"].idx = 2 /\ frames["t2"].idx = 2
    /\ heard["t1"].songs = heard["t2"].songs
    /\ Len(heard["t1"].lyrics) = 1
    /\ heard["t1"].lyrics = heard["t2"].lyrics
====
